---- MODULE Spec2Model ----
(***************************************************************************)
(* Rocket Container: the retrying HTTP client (repository/client.rs), the  *)
(* grouping helper (service/mod.rs) and the container service              *)
(* (service/container.rs with the advertisement, image and video           *)
(* services it calls).                                                     *)
(*                                                                         *)
(* The state machines of this module:                                      *)
(*   SpecRetry      one execution of Client::get, i.e. Client::retry       *)
(*                  driving the closure `op` (Client::send +               *)
(*                  Response::json);                                       *)
(*   SpecExec       the same, with the other futures its worker thread     *)
(*                  has to poll;                                           *)
(*   SpecGroup      one call of group, and group of its flattened result;  *)
(*   SpecSvc        one request to ContainerService, each upstream fetch   *)
(*                  being a completed Client::get whose Result is chosen   *)
(*                  by the environment;                                    *)
(*   SpecMalformed  the same, the upstreams holding ids that are no        *)
(*                  numbers;                                               *)
(*   SpecSeq        a sequence of requests to ContainerService;            *)
(*   SpecCtl        one request to a route of controller/mod.rs.           *)
(***************************************************************************)
EXTENDS Integers, Sequences, FiniteSets, TLC

VARIABLES
    rpc,        \* Client::retry: position ("attempt", "backoff", "final", "done")
    i,          \* Client::retry: the loop variable `i`
    attempts,   \* Client::retry: results of the calls of f() made so far, in order
    lastRaw,    \* what the upstream answered to the latest of those calls
    sleeps,     \* Client::retry: number of thread::sleep calls made so far
    backoff,    \* Client::retry: the last delay slept, in ms (0: none yet)
    retryRet,   \* Client::retry: the value returned (NoResult until it returns)
    upAds,      \* Rocket Advertisement: the advertisements it holds (AdvertisementDto list)
    upImages,   \* Rocket Image: the images it holds (ImageDto list)
    upVideos,   \* Rocket Video: the videos it holds (VideoDto list)
    op,         \* the request being served: [name, id]
    spc,        \* its position: which `.await` it is suspended at
    inflight,   \* upstream requests issued and not yet answered
    reqs,       \* upstream requests issued by this request so far, per endpoint
    advertisements, \* local `advertisements` of get_container / list_containers
    images,     \* local `images` of get_container / list_containers
    dtos,       \* the VideoDto list handed to future::try_join_all
    assets,     \* asset references received so far, per position in dtos
    ret,        \* the request's outcome (NoReturn until it ends)
    served,     \* log of the requests that have ended, oldest first
    fetched,    \* log of the upstream fetches this request has seen return
    responded,  \* controller: the HTTP response of the route handler
    otherPolls, \* times the worker thread has polled another ready future
    gpc,        \* group: position ("idle", "called", "grouped", "regrouped")
    iter,       \* group: the (key, value) pairs handed to it
    grouped,    \* group: the HashMap it returned
    regrouped   \* group: the HashMap returned for the flattened `grouped`

retryVars == <<rpc, i, attempts, lastRaw, sleeps, backoff, retryRet>>

upVars == <<upAds, upImages, upVideos>>

svcVars == <<op, spc, inflight, reqs, advertisements, images, dtos, assets, ret, served,
             fetched>>

ctlVars == <<responded>>

execVars == <<otherPolls>>

groupVars == <<gpc, iter, grouped, regrouped>>

auxVars == <<ctlVars, execVars, groupVars>>

vars == <<retryVars, upVars, svcVars, auxVars>>

(***************************************************************************)
(* crate::types::Result<T> / Error / ErrorKind                             *)
(***************************************************************************)
Ok(v) == [kind |-> "Ok", message |-> "", value |-> v]

Err(k, m) == [kind |-> k, message |-> m, value |-> ""]

NoResult == [kind |-> "None", message |-> "", value |-> ""]

IsErr(res) == res.kind \in {"Permanent", "Transient"}

(***************************************************************************)
(* repository/client.rs                                                    *)
(***************************************************************************)
MAX_ATTEMPTS == 10

MAX_BACKOFF == 1000

BASE == 2

\* thread_rng().gen_range(0..100): the half-open range 0..100
JITTER_RANGE == 100

STATUS_OK == 200

STATUS_NOT_FOUND == 404

STATUS_INTERNAL_SERVER_ERROR == 500

\* Status codes the upstream may answer with: the three the code names and
\* representatives of "everything else" (another 2xx, a 4xx, another 5xx).
StatusCodes == {STATUS_OK, 201, 400, STATUS_NOT_FOUND, STATUS_INTERNAL_SERVER_ERROR, 503}

\* Response bodies: two that decode into T and one that does not.
Bodies == {"body1", "body2", "garbage"}

\* What one request_builder.send() can meet: a transport failure, or a
\* response with a status and a body.
NoRaw == [transport |-> "none", status |-> 0, body |-> ""]

RawOutcomes ==
    {[transport |-> "error", status |-> 0, body |-> ""]}
    \cup [transport : {"ok"}, status : StatusCodes, body : Bodies]

\* response.json::<T>(): serde decoding of the body
Json(body) ==
    CASE body = "body1" -> Ok("value1")
      [] body = "body2" -> Ok("value2")
      [] OTHER          -> Err("Permanent", "decode error")

\* Client::send: the status check
SendAllServerErrorsTransient(raw) ==
    IF raw.transport = "error" THEN Err("Permanent", "transport error")
    ELSE IF raw.status = STATUS_OK THEN Ok(raw.body)
    ELSE IF raw.status = STATUS_NOT_FOUND THEN Err("Permanent", "Resource not found")
    ELSE IF raw.status >= STATUS_INTERNAL_SERVER_ERROR
         THEN Err("Transient", "Internal server error")
    ELSE Err("Permanent", "Unexpected error")

Send(raw) ==
    IF raw.transport = "error" THEN Err("Permanent", "transport error")
    ELSE IF raw.status = STATUS_OK THEN Ok(raw.body)
    ELSE IF raw.status = STATUS_NOT_FOUND THEN Err("Permanent", "Resource not found")
    ELSE IF raw.status = STATUS_INTERNAL_SERVER_ERROR
         THEN Err("Transient", "Internal server error")
    ELSE Err("Permanent", "Unexpected error")

\* The closure `op` of Client::get: send, `?`, then decode the body
Op(raw) ==
    LET response == Send(raw)
    IN  IF response.kind # "Ok" THEN response ELSE Json(response.value)

RECURSIVE Pow(_, _)
Pow(b, e) == IF e = 0 THEN 1 ELSE b * Pow(b, e - 1)

Min(a, b) == IF a <= b THEN a ELSE b

\* Client::get_backoff, but with base 10
GetBackoffTenfold(attempt, random_number_millis) ==
    Min(Pow(10, attempt - 1) + random_number_millis, MAX_BACKOFF)

\* Client::get_backoff, with the random number drawn passed in
GetBackoffOfNextAttempt(attempt, random_number_millis) ==
    Min(Pow(BASE, attempt) + random_number_millis, MAX_BACKOFF)

GetBackoff(attempt, random_number_millis) ==
    LET exponential_backoff == Pow(BASE, attempt - 1)
        backoff_ == exponential_backoff + random_number_millis
    IN  Min(backoff_, MAX_BACKOFF)

\* The count of delays, but the thread sleeps twice
SleptTwice(n) == n + 2

\* thread::sleep(Duration::from_millis(backoff)): one more delay
Slept(n) == n + 1

\* `for i in 1..MAX_ATTEMPTS`: the half-open range
LoopRangeInclusive == 1..MAX_ATTEMPTS

LoopRange == 1..(MAX_ATTEMPTS - 1)

\* The match, but Ok(data) does not return
ReturnsEarlyOnPermanentOnly(res) == res.kind = "Permanent"

\* `if err.kind == ErrorKind::Permanent { return Err(err) }`
ReturnsEarlyNever(res) == res.kind = "Ok"

ReturnsEarly(res) == res.kind = "Ok" \/ res.kind = "Permanent"

\* `return f().await` after the loop
FinalReturnSynthesized(res) ==
    IF res.kind = "Ok" THEN res ELSE Err("Permanent", "retries exhausted")

FinalReturn(res) == res

(***************************************************************************)
(* Strings: sequences of one-character strings                             *)
(***************************************************************************)
DigitChars == <<"0", "1", "2", "3", "4", "5", "6", "7", "8", "9">>

IsDigit(c) == \E d \in 1..10 : DigitChars[d] = c

DigitValue(c) == (CHOOSE d \in 1..10 : DigitChars[d] = c) - 1

ParseError == -1

RECURSIVE DigitsValue(_)
DigitsValue(s) ==
    IF s = <<>> THEN 0
    ELSE 10 * DigitsValue(SubSeq(s, 1, Len(s) - 1)) + DigitValue(s[Len(s)])

\* str::parse::<u32>(): the number written in decimal, ParseError for
\* anything that is not a non-empty digit string in range. Every string of
\* at most 9 digits is in range; longer ones (none is drawn here) are
\* counted as out of range without looking at their value.
ParseU32(s) ==
    IF s = <<>> \/ \E k \in 1..Len(s) : ~IsDigit(s[k]) THEN ParseError
    ELSE IF Len(s) > 9 THEN ParseError
    ELSE DigitsValue(s)

\* `{}` of a u32 in format!: its decimal digits
RECURSIVE U32ToString(_)
U32ToString(n) ==
    IF n < 10 THEN <<DigitChars[n + 1]>>
    ELSE U32ToString(n \div 10) \o <<DigitChars[(n % 10) + 1]>>

(***************************************************************************)
(* Upstream records (repository/*.rs, the Dto types) and what the three    *)
(* upstream services hold                                                  *)
(***************************************************************************)
MaxCid == 2

MaxAds == 2

MaxImages == 1

MaxVideos == 2

ContainerIds == 1..MaxCid

AdvertisementDto(container_id, id) ==
    [container_id |-> container_id, id |-> id, name |-> "ad name", url |-> "ad url"]

ImageDto(container_id, id) ==
    [container_id |-> container_id, id |-> id, name |-> "image name", url |-> "image url"]

VideoDto(container_id, id) ==
    [container_id |-> container_id, description |-> "d", expiration_date |-> "",
     id |-> id, playback_url |-> "p", title |-> "t", type |-> "CLIP"]

AssetReferenceDto(asset_id, asset_type, video_id) ==
    [asset_id |-> asset_id, asset_type |-> asset_type, video_id |-> video_id]

\* Sequences over S of length at most n
SeqsUpTo(S, n) == UNION {[1..m -> S] : m \in 0..n}

\* What an upstream can hold: up to n records, the k-th with id base + k,
\* each owned by any container
AdLists == {[k \in 1..Len(cs) |-> AdvertisementDto(U32ToString(cs[k]), U32ToString(10 + k))] :
               cs \in SeqsUpTo(ContainerIds, MaxAds)}

ImageLists == {[k \in 1..Len(cs) |-> ImageDto(U32ToString(cs[k]), U32ToString(20 + k))] :
                  cs \in SeqsUpTo(ContainerIds, MaxImages)}

VideoLists == {[k \in 1..Len(cs) |-> VideoDto(U32ToString(cs[k]), U32ToString(30 + k))] :
                  cs \in SeqsUpTo(ContainerIds, MaxVideos)}

\* GET {videos}/{id}/asset-references: the asset references Rocket Video
\* holds for a video: one advertisement for an odd id, an image and an
\* advertisement for an even id
UpstreamAssets(video_id) ==
    IF video_id % 2 = 1
    THEN <<AssetReferenceDto(U32ToString(video_id - 20), "AD", U32ToString(video_id))>>
    ELSE <<AssetReferenceDto(U32ToString(video_id - 10), "IMAGE", U32ToString(video_id)),
           AssetReferenceDto(U32ToString(video_id - 20), "AD", U32ToString(video_id))>>

\* GET {base}?containerId={id}: the upstream's filter
FilterByContainer(list, container_id) ==
    SelectSeq(list, LAMBDA dto : dto.container_id = U32ToString(container_id))

(***************************************************************************)
(* Domain records and the Dto conversions                                  *)
(***************************************************************************)
\* impl From<AdvertisementDto> for Advertisement (id.parse().unwrap())
AdvertisementFrom(dto) == [id |-> ParseU32(dto.id), name |-> dto.name, url |-> dto.url]

\* impl From<ImageDto> for Image
ImageFrom(dto) == [id |-> ParseU32(dto.id), name |-> dto.name, url |-> dto.url]

\* impl From<AssetReferenceDto> for AssetReference
AssetReferenceFrom(dto) == [asset_id |-> ParseU32(dto.asset_id), asset_type |-> dto.asset_type]

\* The Video, but the asset references are not attached
VideoFromDroppingAssets(dto, asset_references) ==
    [assets |-> <<>>, description |-> dto.description,
     expiration_date |-> dto.expiration_date, id |-> ParseU32(dto.id),
     playback_url |-> dto.playback_url, title |-> dto.title, type |-> dto.type]

\* VideoBuilder::from(video_dto).assets(assets).build()
VideoFrom(dto, asset_references) ==
    [assets |-> asset_references, description |-> dto.description,
     expiration_date |-> dto.expiration_date, id |-> ParseU32(dto.id),
     playback_url |-> dto.playback_url, title |-> dto.title, type |-> dto.type]

\* `.unwrap()` of a parse that failed
IdPanics(dto) == ParseU32(dto.id) = ParseError

ContainerIdPanics(dto) == ParseU32(dto.container_id) = ParseError

AssetIdPanics(dto) == ParseU32(dto.asset_id) = ParseError

\* The mapping, but an empty response yields a placeholder advertisement
AdvertisementsFromPadded(list) ==
    IF list = <<>> THEN <<[id |-> 0, name |-> "", url |-> ""]>>
    ELSE [k \in 1..Len(list) |-> AdvertisementFrom(list[k])]

\* into_iter().map(Advertisement::from).collect(), and its likes
AdvertisementsFrom(list) == [k \in 1..Len(list) |-> AdvertisementFrom(list[k])]

ImagesFrom(list) == [k \in 1..Len(list) |-> ImageFrom(list[k])]

AssetReferencesFrom(list) == [k \in 1..Len(list) |-> AssetReferenceFrom(list[k])]

(***************************************************************************)
(* service/mod.rs                                                          *)
(***************************************************************************)
\* group, but each value is put at the front of its key's list
RECURSIVE GroupFromPrepending(_, _)
GroupFromPrepending(hash_map, pairs) ==
    IF pairs = <<>> THEN hash_map
    ELSE LET key == pairs[1][1]
             value == pairs[1][2]
             entry == IF key \in DOMAIN hash_map THEN hash_map[key] ELSE <<>>
             pushed == [k \in (DOMAIN hash_map) \cup {key} |->
                           IF k = key THEN <<value>> \o entry ELSE hash_map[k]]
         IN  GroupFromPrepending(pushed, Tail(pairs))

\* group: pairs is a sequence of <<key, value>>; the HashMap is a function
\* on the keys met. entry(key).or_insert_with(Vec).push(value), pair by pair
RECURSIVE GroupFrom(_, _)
GroupFrom(hash_map, pairs) ==
    IF pairs = <<>> THEN hash_map
    ELSE LET key == pairs[1][1]
             value == pairs[1][2]
             entry == IF key \in DOMAIN hash_map THEN hash_map[key] ELSE <<>>
             pushed == [k \in (DOMAIN hash_map) \cup {key} |->
                           IF k = key THEN Append(entry, value) ELSE hash_map[k]]
         IN  GroupFrom(pushed, Tail(pairs))

\* group, but every value is pushed under the key of the first pair
GroupUnderOneKey(pairs) ==
    GroupFrom(<<>>, [k \in 1..Len(pairs) |-> <<pairs[1][1], pairs[k][2]>>])

\* group, but the first pair of the iterator is lost
GroupSkippingFirst(pairs) == GroupFrom(<<>>, IF pairs = <<>> THEN <<>> ELSE Tail(pairs))

Group(pairs) == GroupFrom(<<>>, pairs)

(***************************************************************************)
(* service/container.rs                                                    *)
(***************************************************************************)
\* The pieces of the format string "container-{}{}${}_videos"
TitlePrefix == <<"c", "o", "n", "t", "a", "i", "n", "e", "r", "-">>

TitleAds == <<"_", "a", "d", "s">>

TitleImages == <<"_", "i", "m", "a", "g", "e", "s">>

TitleSeparator == <<"$">>

TitleVideos == <<"_", "v", "i", "d", "e", "o", "s">>

\* Container::from, but the "_ads" segment follows the videos list
ContainerFromTitledByVideos(container_id, ads_, images_, videos_) ==
    LET title_ads == IF videos_ = <<>> THEN <<>> ELSE TitleAds
        title_images == IF images_ = <<>> THEN <<>> ELSE TitleImages
        title == TitlePrefix \o U32ToString(container_id) \o title_ads
                 \o TitleSeparator \o title_images \o TitleVideos
    IN  [ads |-> ads_, id |-> container_id, images |-> images_,
         title |-> title, videos |-> videos_]

\* Container::from
ContainerFrom(container_id, ads_, images_, videos_) ==
    LET title_ads == IF ads_ = <<>> THEN <<>> ELSE TitleAds
        title_images == IF images_ = <<>> THEN <<>> ELSE TitleImages
        title == TitlePrefix \o U32ToString(container_id) \o title_ads
                 \o TitleSeparator \o title_images \o TitleVideos
    IN  [ads |-> ads_, id |-> container_id, images |-> images_,
         title |-> title, videos |-> videos_]

\* build_container, but a missing bucket is replaced by another container's
BuildContainerFromAnyBucket(container_id, advertisement_map, image_map, videos_) ==
    LET AnyOf(map) == IF container_id \in DOMAIN map THEN map[container_id]
                      ELSE IF DOMAIN map # {} THEN map[CHOOSE key \in DOMAIN map : TRUE]
                      ELSE <<>>
    IN  ContainerFrom(container_id, AnyOf(advertisement_map), AnyOf(image_map), videos_)

\* build_container, but the videos are left out of the Container
BuildContainerWithoutVideos(container_id, advertisement_map, image_map, videos_) ==
    LET ads_ == IF container_id \in DOMAIN advertisement_map
                THEN advertisement_map[container_id] ELSE <<>>
        images_ == IF container_id \in DOMAIN image_map
                   THEN image_map[container_id] ELSE <<>>
    IN  ContainerFrom(container_id, ads_, images_, <<>>)

\* ContainerService::build_container
BuildContainer(container_id, advertisement_map, image_map, videos_) ==
    LET ads_ == IF container_id \in DOMAIN advertisement_map
                THEN advertisement_map[container_id] ELSE <<>>
        images_ == IF container_id \in DOMAIN image_map
                   THEN image_map[container_id] ELSE <<>>
    IN  ContainerFrom(container_id, ads_, images_, videos_)

(***************************************************************************)
(* Client::retry as a state machine                                        *)
(***************************************************************************)
RetryEntry ==
    /\ rpc = IF 1 \in LoopRange THEN "attempt" ELSE "final"
    /\ i = 1
    /\ attempts = <<>>
    /\ lastRaw = NoRaw
    /\ sleeps = 0
    /\ backoff = 0
    /\ retryRet = NoResult

\* One pass of the loop body up to the match: f().await, then return or fall
\* through to the backoff
RetryAttempt ==
    /\ rpc = "attempt"
    /\ \E answer \in RawOutcomes :
         LET res == Op(answer)
         IN  /\ attempts' = Append(attempts, res)
             /\ lastRaw' = answer
             /\ IF ReturnsEarly(res)
                THEN /\ retryRet' = res
                     /\ rpc' = "done"
                ELSE /\ retryRet' = retryRet
                     /\ rpc' = "backoff"
    /\ UNCHANGED <<i, sleeps, backoff>>
    /\ UNCHANGED <<upVars, svcVars, auxVars>>

\* get_backoff(i), thread::sleep, and the loop's increment
RetryBackoff ==
    /\ rpc = "backoff"
    /\ \E random_number_millis \in 0..(JITTER_RANGE - 1) :
         backoff' = GetBackoff(i, random_number_millis)
    /\ sleeps' = Slept(sleeps)
    /\ i' = i + 1
    /\ rpc' = IF i + 1 \in LoopRange THEN "attempt" ELSE "final"
    /\ UNCHANGED <<attempts, lastRaw, retryRet>>
    /\ UNCHANGED <<upVars, svcVars, auxVars>>

\* `return f().await`
RetryFinal ==
    /\ rpc = "final"
    /\ \E answer \in RawOutcomes :
         LET res == Op(answer)
         IN  /\ attempts' = Append(attempts, res)
             /\ lastRaw' = answer
             /\ retryRet' = FinalReturn(res)
    /\ rpc' = "done"
    /\ UNCHANGED <<i, sleeps, backoff>>
    /\ UNCHANGED <<upVars, svcVars, auxVars>>

NextRetry == RetryAttempt \/ RetryBackoff \/ RetryFinal

(***************************************************************************)
(* The worker thread that polls the fetch. Client::retry has no `.await`   *)
(* between the match on an attempt's result and the return of              *)
(* thread::sleep: from the moment a Transient error falls through the      *)
(* match until the sleep is over the thread is inside this future's poll.  *)
(* The other futures it has to poll (those joined with this fetch by       *)
(* try_join_all, and the tasks queued on it) are polled only between       *)
(* polls of the fetch.                                                     *)
(***************************************************************************)
MaxPolls == 2

\* The worker thread is not inside a poll of the fetch
WorkerFree == rpc # "backoff"

\* The worker thread polls another future that is ready, which progresses
OtherPoll ==
    /\ WorkerFree
    /\ otherPolls < MaxPolls
    /\ otherPolls' = otherPolls + 1
    /\ UNCHANGED <<retryVars, upVars, svcVars, ctlVars, groupVars>>

NextExec == NextRetry \/ OtherPoll

(***************************************************************************)
(* ContainerService as a state machine. A request is suspended at each     *)
(* `.await` of an upstream fetch; the fetch is a finished Client::get,     *)
(* whose Result the environment chooses.                                   *)
(***************************************************************************)
NoReturn == [kind |-> "None", message |-> "", value |-> <<>>]

Returned(v) == [kind |-> "Ok", message |-> "", value |-> v]

\* The callee's Err swallowed: an empty success instead
PropagatedAsEmpty(e) == [kind |-> "Ok", message |-> "", value |-> <<>>]

\* `?`: the callee's Err becomes this function's Err
Propagated(e) == [kind |-> e.kind, message |-> e.message, value |-> <<>>]

\* A panic unwinding out of the request's task
Panicked == [kind |-> "Panic", message |-> "unwrap on Err", value |-> <<>>]

\* The errors a Client::get may end with
FetchErrors == {Err("Permanent", "Resource not found"),
                Err("Transient", "Internal server error")}

NoRequests == [advertisements |-> 0, images |-> 0, videos |-> 0, asset_references |-> 0]

NoOp == [name |-> "none", id |-> 0]

\* Every order a HashMap may iterate its keys in
IterationOrders(keys) ==
    {order \in [1..Cardinality(keys) -> keys] :
        \A a, b \in 1..Cardinality(keys) : a # b => order[a] # order[b]}

\* The futures, but only the first video's is started
AssetFuturesFirstOnly(list) == {<<"asset_references", k>> : k \in 1..Len(list)} \cap
                               {<<"asset_references", 1>>}

\* The futures handed to try_join_all, by position in dtos
AssetFutures(list) == {<<"asset_references", k>> : k \in 1..Len(list)}

\* The first position whose video id does not parse (0: none)
FirstIdPanic(list) ==
    IF \E k \in 1..Len(list) : IdPanics(list[k])
    THEN CHOOSE k \in 1..Len(list) :
             IdPanics(list[k]) /\ \A j \in 1..(k - 1) : ~IdPanics(list[j])
    ELSE 0

SvcIdle ==
    /\ op = NoOp
    /\ spc = "idle"
    /\ inflight = {}
    /\ reqs = NoRequests
    /\ advertisements = <<>>
    /\ images = <<>>
    /\ dtos = <<>>
    /\ assets = <<>>
    /\ ret = NoReturn
    /\ fetched = <<>>

\* The Containers a request returned
Containers(name, result) ==
    IF result.kind # "Ok" THEN {}
    ELSE IF name = "get_container" THEN {result.value}
    ELSE IF name = "list_containers" THEN {result.value[k] : k \in 1..Len(result.value)}
    ELSE {}

\* The request ends, and is logged with the Containers it returned
End(result) ==
    /\ spc' = "done"
    /\ inflight' = {}
    /\ ret' = result
    /\ served' = Append(served, [name |-> op.name, id |-> op.id,
                                  ok |-> result.kind = "Ok",
                                  containers |-> Containers(op.name, result)])

\* The request issues its next upstream fetch joined with the image fetch
AwaitJoined(endpoint) ==
    /\ spc' = endpoint
    /\ inflight' = {<<endpoint, 0>>}
    /\ reqs' = [name \in DOMAIN reqs |->
                   IF name \in {endpoint, "images"} THEN reqs[name] + 1 ELSE reqs[name]]
    /\ ret' = ret
    /\ served' = served

\* The request issues its next upstream fetch and is suspended on it
Await(endpoint) ==
    /\ spc' = endpoint
    /\ inflight' = {<<endpoint, 0>>}
    /\ reqs' = [reqs EXCEPT ![endpoint] = @ + 1]
    /\ ret' = ret
    /\ served' = served

\* try_join_all is polled for the first time: every future runs up to its
\* list_asset_references fetch
JoinAssetReferences(list) ==
    /\ dtos' = list
    /\ assets' = [k \in 1..Len(list) |-> <<>>]
    /\ IF FirstIdPanic(list) # 0
       THEN /\ End(Panicked)
            /\ reqs' = [reqs EXCEPT !.asset_references = FirstIdPanic(list) - 1]
       ELSE /\ spc' = "asset_references"
            /\ inflight' = AssetFutures(list)
            /\ reqs' = [reqs EXCEPT !.asset_references = Len(list)]
            /\ ret' = ret
            /\ served' = served

(***************************************************************************)
(* ContainerService::get_container                                         *)
(***************************************************************************)
\* get_container is called: list_advertisements_by_container is awaited
GetContainer(container_id) ==
    /\ spc = "idle"
    /\ op' = [name |-> "get_container", id |-> container_id]
    /\ Await("advertisements")
    /\ UNCHANGED <<advertisements, images, dtos, assets, fetched>>
    /\ UNCHANGED <<retryVars, upVars, auxVars>>

\* AdvertisementService::list_advertisements_by_container returns; on Ok
\* list_images_by_container is awaited
GetContainerAdvertisements ==
    /\ op.name = "get_container"
    /\ spc = "advertisements"
    /\ \E res \in {Ok(FilterByContainer(upAds, op.id))} \cup FetchErrors :
         /\ fetched' = Append(fetched, [endpoint |-> "advertisements", position |-> 0, result |-> res])
         /\ IF res.kind # "Ok"
            THEN End(Propagated(res)) /\ UNCHANGED <<advertisements, reqs>>
            ELSE IF \E k \in 1..Len(res.value) : IdPanics(res.value[k])
            THEN End(Panicked) /\ UNCHANGED <<advertisements, reqs>>
            ELSE /\ advertisements' = AdvertisementsFrom(res.value)
                 /\ Await("images")
    /\ UNCHANGED <<op, images, dtos, assets>>
    /\ UNCHANGED <<retryVars, upVars, auxVars>>

\* ImageService::list_images_by_container returns; on Ok
\* list_videos_by_container is awaited
GetContainerImages ==
    /\ op.name = "get_container"
    /\ spc = "images"
    /\ \E res \in {Ok(FilterByContainer(upImages, op.id))} \cup FetchErrors :
         /\ fetched' = Append(fetched, [endpoint |-> "images", position |-> 0, result |-> res])
         /\ IF res.kind # "Ok"
            THEN End(Propagated(res)) /\ UNCHANGED <<images, reqs>>
            ELSE IF \E k \in 1..Len(res.value) : IdPanics(res.value[k])
            THEN End(Panicked) /\ UNCHANGED <<images, reqs>>
            ELSE /\ images' = ImagesFrom(res.value)
                 /\ Await("videos")
    /\ UNCHANGED <<op, advertisements, dtos, assets>>
    /\ UNCHANGED <<retryVars, upVars, auxVars>>

\* VideoRepository::list_videos_by_container returns inside
\* VideoService::list_videos_by_container; on Ok the videos' futures
\* (map_video_dto_to_video) are joined
GetContainerVideos ==
    /\ op.name = "get_container"
    /\ spc = "videos"
    /\ \E res \in {Ok(FilterByContainer(upVideos, op.id))} \cup FetchErrors :
         /\ fetched' = Append(fetched, [endpoint |-> "videos", position |-> 0, result |-> res])
         /\ IF res.kind # "Ok"
            THEN End(Propagated(res)) /\ UNCHANGED <<dtos, assets, reqs>>
            ELSE IF res.value = <<>>
            THEN /\ End(Returned(ContainerFrom(op.id, advertisements, images, <<>>)))
                 /\ UNCHANGED <<dtos, assets, reqs>>
            ELSE JoinAssetReferences(res.value)
    /\ UNCHANGED <<op, advertisements, images>>
    /\ UNCHANGED <<retryVars, upVars, auxVars>>

\* The list_asset_references fetch of the video at position k returns inside
\* map_video_dto_to_video. An Err makes try_join_all Err, which `.unwrap()`
\* turns into a panic; the last Ok completes the join and get_container
\* returns Container::from
GetContainerAssetReferences(k) ==
    /\ op.name = "get_container"
    /\ spc = "asset_references"
    /\ <<"asset_references", k>> \in inflight
    /\ \E res \in {Ok(UpstreamAssets(ParseU32(dtos[k].id)))} \cup FetchErrors :
         /\ fetched' = Append(fetched, [endpoint |-> "asset_references", position |-> k, result |-> res])
         /\ IF res.kind # "Ok"
            THEN End(Panicked) /\ UNCHANGED assets
            ELSE IF \E j \in 1..Len(res.value) : AssetIdPanics(res.value[j])
            THEN End(Panicked) /\ UNCHANGED assets
            ELSE LET got == [assets EXCEPT ![k] = AssetReferencesFrom(res.value)]
                     left == inflight \ {<<"asset_references", k>>}
                     videos == [j \in 1..Len(dtos) |-> VideoFrom(dtos[j], got[j])]
                 IN  /\ assets' = got
                     /\ IF left = {}
                        THEN End(Returned(ContainerFrom(op.id, advertisements, images, videos)))
                        ELSE /\ inflight' = left
                             /\ UNCHANGED <<spc, ret, served>>
    /\ UNCHANGED <<op, reqs, advertisements, images, dtos>>
    /\ UNCHANGED <<retryVars, upVars, auxVars>>

(***************************************************************************)
(* ContainerService::list_containers                                       *)
(***************************************************************************)
\* `videos.iter()`: the container ids list_containers builds a Container for
ContainerKeysWithAdvertisements(advertisement_map, video_map) ==
    (DOMAIN video_map) \cap (DOMAIN advertisement_map)

ContainerKeys(advertisement_map, video_map) == DOMAIN video_map

\* list_containers is called: AdvertisementService::list_advertisements is
\* awaited
ListContainers ==
    /\ spc = "idle"
    /\ op' = [name |-> "list_containers", id |-> 0]
    /\ Await("advertisements")
    /\ UNCHANGED <<advertisements, images, dtos, assets, fetched>>
    /\ UNCHANGED <<retryVars, upVars, auxVars>>

\* AdvertisementService::list_advertisements returns the grouped
\* advertisements; on Ok ImageService::list_images is awaited
ListContainersAdvertisements ==
    /\ op.name = "list_containers"
    /\ spc = "advertisements"
    /\ \E res \in {Ok(upAds)} \cup FetchErrors :
         /\ fetched' = Append(fetched, [endpoint |-> "advertisements", position |-> 0, result |-> res])
         /\ IF res.kind # "Ok"
            THEN End(Propagated(res)) /\ UNCHANGED <<advertisements, reqs>>
            ELSE IF \E k \in 1..Len(res.value) :
                        ContainerIdPanics(res.value[k]) \/ IdPanics(res.value[k])
            THEN End(Panicked) /\ UNCHANGED <<advertisements, reqs>>
            ELSE /\ advertisements' =
                        Group([k \in 1..Len(res.value) |->
                                  <<ParseU32(res.value[k].container_id),
                                    AdvertisementFrom(res.value[k])>>])
                 /\ Await("images")
    /\ UNCHANGED <<op, images, dtos, assets>>
    /\ UNCHANGED <<retryVars, upVars, auxVars>>

\* ImageService::list_images returns the grouped images; on Ok
\* VideoService::list_videos is awaited
ListContainersImages ==
    /\ op.name = "list_containers"
    /\ spc = "images"
    /\ \E res \in {Ok(upImages)} \cup FetchErrors :
         /\ fetched' = Append(fetched, [endpoint |-> "images", position |-> 0, result |-> res])
         /\ IF res.kind # "Ok"
            THEN End(Propagated(res)) /\ UNCHANGED <<images, reqs>>
            ELSE IF \E k \in 1..Len(res.value) :
                        ContainerIdPanics(res.value[k]) \/ IdPanics(res.value[k])
            THEN End(Panicked) /\ UNCHANGED <<images, reqs>>
            ELSE /\ images' =
                        Group([k \in 1..Len(res.value) |->
                                  <<ParseU32(res.value[k].container_id),
                                    ImageFrom(res.value[k])>>])
                 /\ Await("videos")
    /\ UNCHANGED <<op, advertisements, dtos, assets>>
    /\ UNCHANGED <<retryVars, upVars, auxVars>>

\* VideoRepository::list_videos returns inside VideoService::list_videos; on
\* Ok the videos' futures (map_video_dto_to_tuple) are joined
ListContainersVideos ==
    /\ op.name = "list_containers"
    /\ spc = "videos"
    /\ \E res \in {Ok(upVideos)} \cup FetchErrors :
         /\ fetched' = Append(fetched, [endpoint |-> "videos", position |-> 0, result |-> res])
         /\ IF res.kind # "Ok"
            THEN End(Propagated(res)) /\ UNCHANGED <<dtos, assets, reqs>>
            ELSE IF res.value = <<>>
            THEN End(Returned(<<>>)) /\ UNCHANGED <<dtos, assets, reqs>>
            ELSE JoinAssetReferences(res.value)
    /\ UNCHANGED <<op, advertisements, images>>
    /\ UNCHANGED <<retryVars, upVars, auxVars>>

\* The list_asset_references fetch of the video at position k returns inside
\* map_video_dto_to_tuple. An Err makes try_join_all Err, which `.unwrap()`
\* turns into a panic; the last Ok completes the join: the tuples are
\* grouped and list_containers builds one Container per key of the video
\* map, in the map's iteration order
ListContainersAssetReferences(k) ==
    /\ op.name = "list_containers"
    /\ spc = "asset_references"
    /\ <<"asset_references", k>> \in inflight
    /\ \E res \in {Ok(UpstreamAssets(ParseU32(dtos[k].id)))} \cup FetchErrors :
         /\ fetched' = Append(fetched, [endpoint |-> "asset_references", position |-> k, result |-> res])
         /\ IF res.kind # "Ok"
            THEN End(Panicked) /\ UNCHANGED assets
            ELSE IF \/ \E j \in 1..Len(res.value) : AssetIdPanics(res.value[j])
                    \/ ContainerIdPanics(dtos[k])
            THEN End(Panicked) /\ UNCHANGED assets
            ELSE LET got == [assets EXCEPT ![k] = AssetReferencesFrom(res.value)]
                     left == inflight \ {<<"asset_references", k>>}
                     video_map == Group([j \in 1..Len(dtos) |->
                                            <<ParseU32(dtos[j].container_id),
                                              VideoFrom(dtos[j], got[j])>>])
                 IN  /\ assets' = got
                     /\ IF left = {}
                        THEN \E order \in IterationOrders(ContainerKeys(advertisements, video_map)) :
                                 End(Returned([j \in 1..Len(order) |->
                                                  BuildContainer(order[j], advertisements,
                                                                 images, video_map[order[j]])]))
                        ELSE /\ inflight' = left
                             /\ UNCHANGED <<spc, ret, served>>
    /\ UNCHANGED <<op, reqs, advertisements, images, dtos>>
    /\ UNCHANGED <<retryVars, upVars, auxVars>>

(***************************************************************************)
(* ContainerService::list_advertisements and the routes of                 *)
(* controller/mod.rs that are implemented                                  *)
(***************************************************************************)
\* list_advertisements is called: list_advertisements_by_container is awaited
ListAdvertisements(container_id) ==
    /\ spc = "idle"
    /\ op' = [name |-> "list_advertisements", id |-> container_id]
    /\ Await("advertisements")
    /\ UNCHANGED <<advertisements, images, dtos, assets, fetched>>
    /\ UNCHANGED <<retryVars, upVars, auxVars>>

\* AdvertisementService::list_advertisements_by_container returns, and
\* list_advertisements returns what it returned
ListAdvertisementsReturn ==
    /\ op.name = "list_advertisements"
    /\ spc = "advertisements"
    /\ \E res \in {Ok(FilterByContainer(upAds, op.id))} \cup FetchErrors :
         /\ fetched' = Append(fetched, [endpoint |-> "advertisements", position |-> 0, result |-> res])
         /\ IF res.kind # "Ok"
            THEN End(Propagated(res))
            ELSE IF \E k \in 1..Len(res.value) : IdPanics(res.value[k])
            THEN End(Panicked)
            ELSE End(Returned(AdvertisementsFrom(res.value)))
    /\ UNCHANGED <<op, reqs, advertisements, images, dtos, assets>>
    /\ UNCHANGED <<retryVars, upVars, auxVars>>

\* The message of every ErrorResponse the handlers build
GenericMessage == "No advertisements found for this container"

\* The handler's match, but the status follows the kind of the error
RouteResponseByKind(result) ==
    IF result.kind = "Ok"
    THEN [status |-> 200, kind |-> "json", message |-> "", json |-> result.value]
    ELSE [status |-> IF result.kind = "Permanent" THEN 404 ELSE 500,
          kind |-> "error", message |-> result.message, json |-> <<>>]

\* The handler's match on the service's Result: Ok(Json(value)) is answered
\* 200 with the value, Err(Error::InternalServiceError(Json(ErrorResponse)))
\* 500 with the message. A panic of the handler is caught by Rocket, which
\* answers 500 through its default catcher.
RouteResponse(result) ==
    IF result.kind = "Ok"
    THEN [status |-> 200, kind |-> "json", message |-> "", json |-> result.value]
    ELSE IF IsErr(result)
    THEN [status |-> 500, kind |-> "error", message |-> GenericMessage, json |-> <<>>]
    ELSE [status |-> 500, kind |-> "catcher", message |-> "", json |-> <<>>]

\* GET /containers/<container_id>: get_container answers
RouteGetContainer ==
    /\ op.name = "get_container"
    /\ spc = "done"
    /\ responded.status = 0
    /\ responded' = RouteResponse(ret)
    /\ UNCHANGED <<retryVars, upVars, svcVars, execVars, groupVars>>

\* GET /containers/<container_id>/ads: get_advertisements answers
RouteGetAdvertisements ==
    /\ op.name = "list_advertisements"
    /\ spc = "done"
    /\ responded.status = 0
    /\ responded' = RouteResponse(ret)
    /\ UNCHANGED <<retryVars, upVars, svcVars, execVars, groupVars>>

\* A handler whose body is `todo!()`: it panics before it calls the service,
\* and Rocket answers for the panicked handler
RouteTodo(route, container_id) ==
    /\ spc = "idle"
    /\ responded.status = 0
    /\ op' = [name |-> route, id |-> container_id]
    /\ spc' = "done"
    /\ ret' = Panicked
    /\ responded' = RouteResponse(Panicked)
    /\ UNCHANGED <<inflight, reqs, advertisements, images, dtos, assets, served, fetched>>
    /\ UNCHANGED <<retryVars, upVars, execVars, groupVars>>

\* GET /containers/<container_id>/images: get_images
RouteGetImages(container_id) == RouteTodo("GET /containers/<container_id>/images", container_id)

\* GET /containers/<container_id>/videos: get_videos
RouteGetVideos(container_id) == RouteTodo("GET /containers/<container_id>/videos", container_id)

\* GET /containers: list_containers
RouteListContainers == RouteTodo("GET /containers", 0)

NextCtl ==
    \/ \E container_id \in ContainerIds : RouteGetImages(container_id)
    \/ \E container_id \in ContainerIds : RouteGetVideos(container_id)
    \/ RouteListContainers
    \/ \E container_id \in ContainerIds : GetContainer(container_id)
    \/ GetContainerAdvertisements
    \/ GetContainerImages
    \/ GetContainerVideos
    \/ \E k \in 1..Len(dtos) : GetContainerAssetReferences(k)
    \/ RouteGetContainer
    \/ \E container_id \in ContainerIds : ListAdvertisements(container_id)
    \/ ListAdvertisementsReturn
    \/ RouteGetAdvertisements

\* The response has been handed to the caller: the service takes the next
\* request
MaxRequests == 4

Respond ==
    /\ spc = "done"
    /\ Len(served) < MaxRequests
    /\ op' = NoOp
    /\ spc' = "idle"
    /\ inflight' = {}
    /\ reqs' = NoRequests
    /\ advertisements' = <<>>
    /\ images' = <<>>
    /\ dtos' = <<>>
    /\ assets' = <<>>
    /\ ret' = NoReturn
    /\ fetched' = <<>>
    /\ UNCHANGED served
    /\ UNCHANGED <<retryVars, upVars, auxVars>>

(***************************************************************************)
(* group (service/mod.rs) applied to an iterator of pairs, and applied     *)
(* again to the pairs of the HashMap it returned                           *)
(***************************************************************************)
MaxPairs == 3

GroupKeys == {1, 2}

GroupValues == {"a", "b"}

\* The pairs of a HashMap, its keys visited in the given order and each
\* key's values in list order
RECURSIVE Flatten(_, _)
Flatten(hash_map, order) ==
    IF order = <<>> THEN <<>>
    ELSE [k \in 1..Len(hash_map[order[1]]) |-> <<order[1], hash_map[order[1]][k]>>]
         \o Flatten(hash_map, Tail(order))

\* group(iter) returns
GroupReturn ==
    /\ gpc = "called"
    /\ grouped' = Group(iter)
    /\ gpc' = "grouped"
    /\ UNCHANGED <<iter, regrouped>>
    /\ UNCHANGED <<retryVars, upVars, svcVars, ctlVars, execVars>>

\* group(grouped.into_iter().flat_map(..)) returns, the HashMap iterating
\* its keys in any order
Regroup ==
    /\ gpc = "grouped"
    /\ \E order \in IterationOrders(DOMAIN grouped) :
          regrouped' = Group(Flatten(grouped, order))
    /\ gpc' = "regrouped"
    /\ UNCHANGED <<iter, grouped>>
    /\ UNCHANGED <<retryVars, upVars, svcVars, ctlVars, execVars>>

NextGroup == GroupReturn \/ Regroup

(***************************************************************************)
(* The parts of the state a specification does not exercise stay idle      *)
(***************************************************************************)
NoResponse == [status |-> 0, kind |-> "none", message |-> "", json |-> <<>>]

CtlIdle == responded = NoResponse

ExecIdle == otherPolls = 0

GroupIdle ==
    /\ gpc = "idle"
    /\ iter = <<>>
    /\ grouped = <<>>
    /\ regrouped = <<>>

AuxIdle == CtlIdle /\ ExecIdle /\ GroupIdle

(***************************************************************************)
(* Specifications                                                          *)
(***************************************************************************)
\* One Client::get, nothing else
InitRetry ==
    /\ RetryEntry
    /\ SvcIdle
    /\ AuxIdle
    /\ served = <<>>
    /\ upAds = <<>>
    /\ upImages = <<>>
    /\ upVideos = <<>>

SpecRetry == InitRetry /\ [][NextRetry]_vars

\* One Client::get and the other futures of its worker thread
SpecExec == InitRetry /\ [][NextExec]_vars

\* One call of group, for any iterator of at most MaxPairs pairs
InitGroup ==
    /\ RetryEntry
    /\ SvcIdle
    /\ CtlIdle
    /\ ExecIdle
    /\ served = <<>>
    /\ upAds = <<>>
    /\ upImages = <<>>
    /\ upVideos = <<>>
    /\ gpc = "called"
    /\ iter \in SeqsUpTo(GroupKeys \X GroupValues, MaxPairs)
    /\ grouped = <<>>
    /\ regrouped = <<>>

SpecGroup == InitGroup /\ [][NextGroup]_vars

\* One request to ContainerService, for any contents of the upstreams
InitSvc ==
    /\ RetryEntry
    /\ SvcIdle
    /\ AuxIdle
    /\ served = <<>>
    /\ upAds \in AdLists
    /\ upImages \in ImageLists
    /\ upVideos \in VideoLists

Steps ==
    \/ GetContainerAdvertisements
    \/ GetContainerImages
    \/ GetContainerVideos
    \/ \E k \in 1..Len(dtos) : GetContainerAssetReferences(k)
    \/ ListContainersAdvertisements
    \/ ListContainersImages
    \/ ListContainersVideos
    \/ \E k \in 1..Len(dtos) : ListContainersAssetReferences(k)

NextSvc ==
    \/ \E container_id \in ContainerIds : GetContainer(container_id)
    \/ ListContainers
    \/ Steps

SpecSvc == InitSvc /\ [][NextSvc]_vars

\* One request to ContainerService, the upstreams holding at most one record
\* each, whose id or containerId may be a string that is no number
MalformedIds == {<<"x">>, <<"1", "a">>}

InitMalformed ==
    /\ RetryEntry
    /\ SvcIdle
    /\ AuxIdle
    /\ served = <<>>
    /\ upAds \in {<<>>} \cup
          {<<AdvertisementDto(cid, id)>> :
              cid \in {U32ToString(1)} \cup MalformedIds,
              id \in {U32ToString(11)} \cup MalformedIds}
    /\ upImages \in {<<>>} \cup
          {<<ImageDto(cid, id)>> :
              cid \in {U32ToString(1)} \cup MalformedIds,
              id \in {U32ToString(21)} \cup MalformedIds}
    /\ upVideos \in {<<>>} \cup
          {<<VideoDto(cid, id)>> :
              cid \in {U32ToString(1)} \cup MalformedIds,
              id \in {U32ToString(31)} \cup MalformedIds}

SpecMalformed == InitMalformed /\ [][NextSvc]_vars

\* One request to GET /containers/<id> or GET /containers/<id>/ads, for any
\* contents of the upstreams
SpecCtl == InitSvc /\ [][NextCtl]_vars

\* A sequence of requests to ContainerService, the upstreams holding one
\* advertisement (container 1), no image, and one video in each of the
\* containers 1, 2 and 3
SeqAds == <<AdvertisementDto(U32ToString(1), U32ToString(11))>>

SeqImages == <<>>

SeqVideos == <<VideoDto(U32ToString(1), U32ToString(31)),
               VideoDto(U32ToString(2), U32ToString(32)),
               VideoDto(U32ToString(3), U32ToString(33))>>

SeqIds == {1, 2, 3}

InitSeq ==
    /\ RetryEntry
    /\ SvcIdle
    /\ AuxIdle
    /\ served = <<>>
    /\ upAds = SeqAds
    /\ upImages = SeqImages
    /\ upVideos = SeqVideos

NextSeq ==
    \/ \E container_id \in SeqIds : GetContainer(container_id)
    \/ ListContainers
    \/ Steps
    \/ Respond

SpecSeq == InitSeq /\ [][NextSeq]_vars

(***************************************************************************)
(* Properties of Client::retry, checked under SpecRetry                    *)
(***************************************************************************)
\* Number of upstream calls made so far by this fetch
Calls == Len(attempts)

AllTransient == \A k \in 1..Calls : attempts[k].kind = "Transient"

\* C1: a fetch whose every attempt yields a Transient error makes exactly
\* MAX_ATTEMPTS calls and then returns an error: it never makes an 11th call
\* and it does not return before the 10th.
C1_TransientExhaustion ==
    /\ Calls <= 10
    /\ (rpc = "done" /\ AllTransient) =>
          /\ Calls = 10
          /\ IsErr(retryRet)
    /\ (rpc # "done" /\ AllTransient) => Calls < 10

C1_Witness ==
    rpc = "done" /\ AllTransient /\ Calls = 10 /\ retryRet.kind = "Transient"

\* C2: when attempt k yields a Permanent error, retry returns that very error
\* at once: attempt k is the last call made, k - 1 sleeps have happened (none
\* after attempt k), and the fetch is over.
C2_PermanentShortCircuits ==
    \A k \in 1..Calls :
        attempts[k].kind = "Permanent" =>
            /\ k = Calls
            /\ rpc = "done"
            /\ retryRet = attempts[k]
            /\ sleeps = k - 1

C2_Witness ==
    /\ rpc = "done"
    /\ Calls > 1
    /\ Calls < MAX_ATTEMPTS
    /\ attempts[Calls].kind = "Permanent"

\* The classification the specification gives for one attempt's outcome
Decodable(body) == body \in {"body1", "body2"}

ClaimedKind(answer) ==
    IF answer.transport = "ok" /\ answer.status = 200 /\ Decodable(answer.body)
    THEN "Ok"
    ELSE IF answer.transport = "ok" /\ answer.status = 500 THEN "Transient"
    ELSE "Permanent"

\* C3: one attempt is a success for HTTP 200 with a decodable body, a
\* Transient error for HTTP 500, and a Permanent error for 404, for every
\* other status, for a transport failure and for a 200 whose body does not
\* decode; HTTP 500 is the only outcome classified Transient.
C3_Classification ==
    Calls > 0 =>
        /\ attempts[Calls].kind = ClaimedKind(lastRaw)
        /\ (attempts[Calls].kind = "Transient" =>
                lastRaw.transport = "ok" /\ lastRaw.status = 500)
        /\ (attempts[Calls].kind = "Ok" =>
                attempts[Calls].value = Json(lastRaw.body).value)

C3_Witness ==
    /\ Calls > 0
    /\ lastRaw.transport = "ok"
    /\ lastRaw.status = 503
    /\ attempts[Calls] = Err("Permanent", "Unexpected error")

\* C4: when all MAX_ATTEMPTS attempts are used without success, retry returns
\* exactly the 10th attempt's error, kind and message: nothing is synthesized
\* and no earlier attempt's error is returned.
C4_FinalErrorAsIs ==
    (rpc = "done" /\ Calls = MAX_ATTEMPTS /\ IsErr(attempts[MAX_ATTEMPTS])) =>
        retryRet = attempts[MAX_ATTEMPTS]

C4_Witness ==
    /\ rpc = "done"
    /\ Calls = MAX_ATTEMPTS
    /\ retryRet = Err("Permanent", "Resource not found")
    /\ attempts[MAX_ATTEMPTS - 1] = Err("Transient", "Internal server error")

\* A delay has just been slept and attempt number Calls + 1 comes next
JustSlept == sleeps >= 1 /\ rpc \in {"attempt", "final"}

\* C5 as claimed: the delay slept immediately before attempt n (n >= 2) is
\* min(2^(n-1) + r, 1000) for some r in [0, 100], so it lies in
\* [2^(n-1), 2^(n-1) + 100] and is at most 1000.
C5_BackoffAsClaimed ==
    JustSlept =>
        LET n == Calls + 1
        IN  /\ \E r \in 0..100 : backoff = Min(Pow(2, n - 1) + r, 1000)
            /\ backoff >= Pow(2, n - 1)
            /\ backoff <= Pow(2, n - 1) + 100
            /\ backoff <= 1000

\* C5 as amended: the delay slept immediately before attempt n (n >= 2) is
\* min(2^(n-2) + r, 1000) for some r in [0, 100] (get_backoff is given the
\* number of the attempt that just failed), so it lies in
\* [2^(n-2), 2^(n-2) + 100] and is at most 1000.
C5_BackoffBound ==
    JustSlept =>
        LET n == Calls + 1
        IN  /\ n >= 2
            /\ n <= MAX_ATTEMPTS
            /\ \E r \in 0..100 : backoff = Min(Pow(2, n - 2) + r, 1000)
            /\ backoff >= Pow(2, n - 2)
            /\ backoff <= Pow(2, n - 2) + 100
            /\ backoff <= 1000

C5_Witness ==
    /\ JustSlept
    /\ Calls + 1 = MAX_ATTEMPTS
    /\ backoff = Pow(2, MAX_ATTEMPTS - 2) + 99

\* C22: if attempts 1..k-1 of a fetch all yield Transient errors and attempt
\* k (1 <= k <= 10) yields Ok(v), retry returns Ok(v) with that same value
\* after exactly k upstream calls and makes no further call.
C22_OkAfterTransients ==
    \A k \in 1..Calls :
        attempts[k].kind = "Ok" =>
            /\ k = Calls
            /\ k <= 10
            /\ rpc = "done"
            /\ retryRet = attempts[k]
            /\ retryRet.value = Json(lastRaw.body).value
            /\ \A j \in 1..(k - 1) : attempts[j].kind = "Transient"

\* Nine Transient errors, then the 10th attempt's Ok is returned
C22_Witness ==
    /\ rpc = "done"
    /\ Calls = 10
    /\ \A j \in 1..9 : attempts[j].kind = "Transient"
    /\ lastRaw.body = "body2"
    /\ retryRet = Ok(Json("body2").value)

\* C23: no backoff delay precedes attempt 1, exactly one delay occurs between
\* any two consecutive attempts, and none after the attempt whose result is
\* returned: the number of delays is the number of upstream calls minus one.
C23_OneDelayBetweenAttempts ==
    /\ rpc \in {"attempt", "final"} => sleeps = Calls
    /\ rpc \in {"backoff", "done"} => sleeps = Calls - 1

\* A fetch that returned at its 4th call, after three delays
C23_Witness ==
    /\ rpc = "done"
    /\ Calls = 4
    /\ sleeps = 3
    /\ retryRet.kind = "Permanent"

\* C28: within the MAX_ATTEMPTS bound the MAX_BACKOFF cap is never the
\* binding term: every delay slept is strictly less than 1000 ms, it is the
\* uncapped 2^(n-1) + r of the n-th delay, and the exponential parts are
\* strictly increasing from one delay to the next.
C28_CapNeverBinds ==
    sleeps >= 1 =>
        /\ backoff < 1000
        /\ \E r \in 0..99 : backoff = Pow(2, sleeps - 1) + r
        /\ sleeps <= 9
        /\ \A n \in 2..sleeps : Pow(2, n - 1) > Pow(2, n - 2)

\* The last delay of a fetch, with the largest jitter: 2^8 + 99 ms
C28_Witness ==
    /\ sleeps = 9
    /\ backoff = 355
    /\ rpc = "final"

(***************************************************************************)
(* Properties of ContainerService, checked under SpecSvc and SpecSeq       *)
(***************************************************************************)
\* The Containers returned by the request that has just ended
Built == IF spc = "done" THEN Containers(op.name, ret) ELSE {}

\* The title the specification gives: "container-<id>", "_ads" if there are
\* advertisements, "_images" if there are images, "_videos"
ClaimedTitle(container) ==
    <<"c", "o", "n", "t", "a", "i", "n", "e", "r", "-">>
    \o U32ToString(container.id)
    \o (IF container.ads # <<>> THEN <<"_", "a", "d", "s">> ELSE <<>>)
    \o (IF container.images # <<>> THEN <<"_", "i", "m", "a", "g", "e", "s">> ELSE <<>>)
    \o <<"_", "v", "i", "d", "e", "o", "s">>

\* C6: the title of every Container built by Container::from is exactly
\* "container-<id>", then "_ads" if ads is non-empty, then "_images" if
\* images is non-empty, then "_videos", with no other character.
C6_TitleAsClaimed == \A container \in Built : container.title = ClaimedTitle(container)

\* The request before the one in progress (or just ended), if any
HasPrevious == IF spc = "done" THEN Len(served) >= 2 ELSE spc # "idle" /\ Len(served) >= 1

Previous == IF spc = "done" THEN served[Len(served) - 1] ELSE served[Len(served)]

\* C7: get_container(id) called twice in succession, the first call
\* succeeding, assembles once: the second call issues no upstream request
\* and returns a Container equal to the first.
C7_SecondCallIsCacheHit ==
    (/\ HasPrevious
     /\ Previous.name = "get_container"
     /\ Previous.ok
     /\ op = [name |-> "get_container", id |-> Previous.id]) =>
        /\ reqs = NoRequests
        /\ spc = "done" => Built = Previous.containers

\* The first n requests served were successful get_container calls for ids
GetsServed(ids) ==
    /\ Len(served) >= Len(ids)
    /\ \A k \in 1..Len(ids) :
          served[k].name = "get_container" /\ served[k].ok /\ served[k].id = ids[k]

\* C8: with capacity 2, after successful loads of ids 1, 2, 3 in that order
\* and no interleaved reads, id 1 has been evicted (a get_container(1) that
\* follows is a miss and fetches) while ids 2 and 3 are still cached (a
\* get_container(2) or get_container(3) that follows issues no upstream
\* request).
C8_LruAfterThreeLoads ==
    (/\ GetsServed(<<1, 2, 3>>)
     /\ op.name = "get_container"
     /\ spc # "idle"
     /\ Len(served) = (IF spc = "done" THEN 4 ELSE 3)) =>
        /\ op.id \in {2, 3} => reqs = NoRequests
        /\ op.id = 1 => reqs.advertisements = 1

\* C9: a successful list_containers() primes the cache with every Container
\* it assembled: a get_container(id) that follows, for an id of the returned
\* catalog, is served without any upstream request.
C9_ListPrimesCache ==
    (/\ HasPrevious
     /\ Previous.name = "list_containers"
     /\ Previous.ok
     /\ op.name = "get_container"
     /\ \E container \in Previous.containers : container.id = op.id) =>
        reqs = NoRequests

\* The container ids, as list_containers reads them, of a list of Dtos
ContainerIdsOf(list) == {ParseU32(list[k].container_id) : k \in 1..Len(list)}

\* C10: when its three fetches succeed, list_containers() returns exactly one
\* Container for each distinct container id that occurs among the upstream
\* videos and none for any other id: an id that occurs only among
\* advertisements or images is dropped, and the result is as long as there
\* are distinct video container ids.
C10_OneContainerPerVideoContainer ==
    (spc = "done" /\ op.name = "list_containers" /\ ret.kind = "Ok") =>
        /\ {ret.value[k].id : k \in 1..Len(ret.value)} = ContainerIdsOf(upVideos)
        /\ Len(ret.value) = Cardinality(ContainerIdsOf(upVideos))
        /\ \A a, b \in 1..Len(ret.value) : a # b => ret.value[a].id # ret.value[b].id

\* list_containers has returned Ok for two videos of one container while an
\* advertisement belongs to a container that has no video
C10_Witness ==
    /\ spc = "done"
    /\ op.name = "list_containers"
    /\ ret.kind = "Ok"
    /\ Len(upVideos) = 2
    /\ Len(ret.value) = 1
    /\ ContainerIdsOf(upAds) \ ContainerIdsOf(upVideos) # {}

\* Every fetch the request has seen return was a success
AllFetchedOk == \A k \in 1..Len(fetched) : fetched[k].result.kind = "Ok"

\* list_containers has seen its three lists and every asset-reference list
ListFetchesComplete ==
    /\ op.name = "list_containers"
    /\ Len(fetched) = 3 + Len(upVideos)
    /\ AllFetchedOk

\* The Videos of one container as the upstream holds them, in upstream order
UpstreamVideosOf(container_id) ==
    LET mine == SelectSeq(upVideos, LAMBDA dto : ParseU32(dto.container_id) = container_id)
    IN  [k \in 1..Len(mine) |->
            VideoFrom(mine[k], AssetReferencesFrom(UpstreamAssets(ParseU32(mine[k].id))))]

\* C11: in list_containers, for a container id that is a key of the video
\* group but not of the advertisement (image) group, building the Container
\* neither panics nor errors; the Container has an empty ads (images) list
\* and its videos list is the video group's list for that id.
C11_MissingBucketDefaults ==
    ListFetchesComplete =>
        /\ spc = "done"
        /\ ret.kind = "Ok"
        /\ \A k \in 1..Len(ret.value) :
              LET container == ret.value[k]
              IN  /\ container.id \notin ContainerIdsOf(upAds) => container.ads = <<>>
                  /\ container.id \notin ContainerIdsOf(upImages) => container.images = <<>>
                  /\ container.videos = UpstreamVideosOf(container.id)

\* list_containers built a Container of two videos whose id has no
\* advertisement and no image, while another container has both
C11_Witness ==
    /\ ListFetchesComplete
    /\ ret.kind = "Ok"
    /\ upAds # <<>>
    /\ upImages # <<>>
    /\ \E k \in 1..Len(ret.value) :
          /\ ret.value[k].id \notin ContainerIdsOf(upAds) \cup ContainerIdsOf(upImages)
          /\ ret.value[k].ads = <<>>
          /\ ret.value[k].images = <<>>
          /\ Len(ret.value[k].videos) = 2

\* get_container has seen its three lists and every asset-reference list
GetFetchesComplete ==
    /\ op.name = "get_container"
    /\ Len(fetched) = 3 + Len(FilterByContainer(upVideos, op.id))
    /\ AllFetchedOk

\* C12: in get_container(id) an advertisement or image response that is a
\* successful empty list is not an error: the request goes on to its next
\* fetch, and provided the other fetches succeed it returns Ok with a
\* Container whose corresponding list is empty.
C12_EmptyListIsSuccess ==
    /\ (op.name = "get_container" /\ Len(fetched) = 1 /\ fetched[1].result = Ok(<<>>)) =>
           spc = "images" /\ ret = NoReturn
    /\ (op.name = "get_container" /\ Len(fetched) = 2 /\ AllFetchedOk
           /\ fetched[2].result = Ok(<<>>)) =>
           spc = "videos" /\ ret = NoReturn
    /\ GetFetchesComplete =>
           /\ spc = "done"
           /\ ret.kind = "Ok"
           /\ FilterByContainer(upAds, op.id) = <<>> => ret.value.ads = <<>>
           /\ FilterByContainer(upImages, op.id) = <<>> => ret.value.images = <<>>

\* get_container returned Ok with no advertisement and no image for a
\* container of two videos, the upstreams holding some for another container
C12_Witness ==
    /\ GetFetchesComplete
    /\ fetched[1].result = Ok(<<>>)
    /\ fetched[2].result = Ok(<<>>)
    /\ upAds # <<>>
    /\ upImages # <<>>
    /\ ret.kind = "Ok"
    /\ ret.value.ads = <<>>
    /\ ret.value.images = <<>>
    /\ Len(ret.value.videos) = 2

TopLevel == {"advertisements", "images", "videos"}

\* C13: assembly is all-or-nothing: if any of the three top-level fetches
\* (advertisements, images, videos) of get_container or list_containers
\* ends in an error, the operation ends there and returns that error, kind
\* and message, and no Container or partial list of Containers.
C13_AllOrNothing ==
    \A k \in 1..Len(fetched) :
        (fetched[k].endpoint \in TopLevel /\ IsErr(fetched[k].result)) =>
            /\ k = Len(fetched)
            /\ spc = "done"
            /\ ret.kind = fetched[k].result.kind
            /\ ret.message = fetched[k].result.message
            /\ ret.value = <<>>
            /\ Built = {}
            /\ served[Len(served)].containers = {}

\* list_containers got its advertisements and images, then its video fetch
\* failed with a Transient error, which it returned
C13_Witness ==
    /\ op.name = "list_containers"
    /\ spc = "done"
    /\ Len(fetched) = 3
    /\ fetched[1].result.kind = "Ok" /\ fetched[1].result.value # <<>>
    /\ fetched[2].result.kind = "Ok" /\ fetched[2].result.value # <<>>
    /\ fetched[3].result = Err("Transient", "Internal server error")
    /\ ret.kind = "Transient"

\* C14: if the asset-reference fetch for any one video fails while
\* list_videos_by_container or list_videos is resolving assets, the operation
\* returns an explicit Err carrying that error to its caller; it does not
\* panic or otherwise abort the task.
C14_AssetFailureIsReturned ==
    \A k \in 1..Len(fetched) :
        (fetched[k].endpoint = "asset_references" /\ IsErr(fetched[k].result)) =>
            /\ spc = "done"
            /\ ret # Panicked
            /\ ret.kind = fetched[k].result.kind
            /\ ret.message = fetched[k].result.message

\* The list has an element this operation cannot map to its domain record
HasMalformed(list) ==
    \E k \in 1..Len(list) :
        \/ IdPanics(list[k])
        \/ op.name = "list_containers" /\ ContainerIdPanics(list[k])

\* C15: an upstream list element whose id or containerId is not a numeric
\* string makes the enclosing list operation return a Permanent error as an
\* Err value; mapping the element to its domain record never panics.
C15_MalformedIsPermanent ==
    /\ ret # Panicked
    /\ \A k \in 1..Len(fetched) :
          (/\ spc = "done"
           /\ fetched[k].endpoint \in TopLevel
           /\ fetched[k].result.kind = "Ok"
           /\ HasMalformed(fetched[k].result.value)) => ret.kind = "Permanent"

\* C16: while one fetch is waiting out its backoff delay, the other futures
\* scheduled on the same executor can still make progress: the backoff is a
\* suspension of that fetch only, never a stall of the worker thread.
C16_BackoffDoesNotBlock ==
    rpc = "backoff" =>
        /\ WorkerFree
        /\ otherPolls < MaxPolls => ENABLED OtherPoll

\* C17: within one get_container or list_containers request the three
\* top-level upstream calls are issued concurrently and joined before
\* assembly: while the advertisement request has not completed, the image
\* and video requests are in flight too (a join issues its calls in the
\* step that issues the first of them).
C17_TopLevelConcurrent ==
    <<"advertisements", 0>> \in inflight =>
        /\ <<"images", 0>> \in inflight
        /\ <<"videos", 0>> \in inflight

\* The values the input pairs carry for one key, in input order
ValuesOf(pairs, key) ==
    LET mine == SelectSeq(pairs, LAMBDA pair : pair[1] = key)
    IN  [k \in 1..Len(mine) |-> mine[k][2]]

\* C18: for every finite input sequence of (key, value) pairs, group returns
\* a map whose key set is exactly the set of keys in the input and whose
\* list at each key is exactly the subsequence of input values carrying that
\* key, in input order, repeated values kept.
C18_GroupKeepsAllInOrder ==
    gpc \in {"grouped", "regrouped"} =>
        /\ DOMAIN grouped = {iter[k][1] : k \in 1..Len(iter)}
        /\ \A key \in DOMAIN grouped : grouped[key] = ValuesOf(iter, key)

\* group returned for three pairs where one key carries "b" then "a" around
\* a pair of the other key, and for three pairs repeating one value
C18_Witness ==
    /\ gpc = "grouped"
    /\ \/ iter = <<<<1, "b">>, <<2, "a">>, <<1, "a">>>> /\ grouped[1] = <<"b", "a">>
       \/ iter = <<<<2, "a">>, <<2, "a">>, <<1, "a">>>> /\ grouped[2] = <<"a", "a">>

\* C19: re-grouping is idempotent: flattening group(pairs) back into pairs
\* (each key's values in list order, keys in any order) and applying group
\* again yields the same key-to-list mapping as group(pairs).
C19_RegroupIdempotent == gpc = "regrouped" => regrouped = grouped

\* The regrouped input had its keys interleaved, so the flattened pairs are
\* in another order than the input
C19_Witness ==
    /\ gpc = "regrouped"
    /\ iter = <<<<2, "b">>, <<1, "a">>, <<2, "a">>>>
    /\ regrouped[2] = <<"b", "a">>
    /\ regrouped[1] = <<"a">>

\* C20: GET /containers/<id> and GET /containers/<id>/ads respond 200 with
\* the JSON result when the container service returns Ok, and 500 with a
\* generic JSON error message whenever the service returns any error,
\* Permanent or Transient alike (never 404 or 400).
C20_RoutesAnswer200Or500 ==
    (responded.status # 0 /\ op.name \in {"get_container", "list_advertisements"}) =>
        /\ ret.kind = "Ok" =>
              /\ responded.status = 200
              /\ responded.kind = "json"
              /\ responded.json = ret.value
        /\ IsErr(ret) =>
              /\ responded.status = 500
              /\ responded.kind = "error"
              /\ responded.message = GenericMessage
        /\ responded.status \notin {400, 404}

\* The advertisement upstream answered 404 (a Permanent "Resource not
\* found") and GET /containers/<id>/ads answered 500
C20_Witness ==
    /\ op.name = "list_advertisements"
    /\ ret = Propagated(Err("Permanent", "Resource not found"))
    /\ responded.status = 500
    /\ responded.message = GenericMessage

TodoRoutes == {"GET /containers", "GET /containers/<container_id>/images",
               "GET /containers/<container_id>/videos"}

\* C21: the routes GET /containers, GET /containers/<id>/images and
\* GET /containers/<id>/videos each respond with HTTP 200 OK when the
\* upstream services answer successfully.
C21_OtherRoutesAnswer200 ==
    (responded.status # 0 /\ op.name \in TodoRoutes /\ AllFetchedOk) =>
        responded.status = 200

\* The positions in dtos whose asset-reference fetch has returned
Answered == {fetched[k].position : k \in {j \in 1..Len(fetched) :
                                             fetched[j].endpoint = "asset_references"}}

\* C24: the asset-reference calls for the videos of one list are issued
\* concurrently: while the list is being resolved every video's request that
\* has not returned is in flight, whatever its position (a later video's
\* request is in flight before an earlier one has completed), and all have
\* returned before the video list is returned.
C24_AssetCallsConcurrent ==
    /\ spc = "asset_references" =>
          /\ inflight = {<<"asset_references", k>> : k \in (1..Len(dtos)) \ Answered}
          /\ inflight # {}
          /\ reqs.asset_references = Len(dtos)
    /\ (spc = "done" /\ ret.kind = "Ok" /\ op.name \in {"get_container", "list_containers"}) =>
          Answered = 1..Len(dtos)

\* The second video's asset references have arrived while the request for
\* the first video is still in flight
C24_Witness ==
    /\ spc = "asset_references"
    /\ Len(dtos) = 2
    /\ Answered = {2}
    /\ inflight = {<<"asset_references", 1>>}

\* The record a Dto stands for: its id as an integer, its name and url
SameRecord(record, dto) ==
    /\ record.id \in Nat
    /\ U32ToString(record.id) = dto.id
    /\ record.name = dto.name
    /\ record.url = dto.url

\* The asset references Rocket Video holds for a video id, as integers
AssetsOfVideo(video_id) ==
    LET held == UpstreamAssets(video_id)
    IN  [k \in 1..Len(held) |-> [asset_id |-> ParseU32(held[k].asset_id),
                                 asset_type |-> held[k].asset_type]]

\* C25: when every fetch succeeds, under every completion order of the
\* asset-reference calls, get_container(id) returns a Container whose id is
\* the requested id, whose ads and images are the upstream records in
\* upstream order with integer ids, and whose videos list has the length and
\* order of the upstream video response, each Video carrying exactly the
\* asset references returned for its own video id.
C25_GetContainerAssembly ==
    GetFetchesComplete =>
        LET ads_ == FilterByContainer(upAds, op.id)
            images_ == FilterByContainer(upImages, op.id)
            videos_ == FilterByContainer(upVideos, op.id)
        IN  /\ ret.kind = "Ok"
            /\ ret.value.id = op.id
            /\ Len(ret.value.ads) = Len(ads_)
            /\ \A k \in 1..Len(ads_) : SameRecord(ret.value.ads[k], ads_[k])
            /\ Len(ret.value.images) = Len(images_)
            /\ \A k \in 1..Len(images_) : SameRecord(ret.value.images[k], images_[k])
            /\ Len(ret.value.videos) = Len(videos_)
            /\ \A k \in 1..Len(videos_) :
                  /\ U32ToString(ret.value.videos[k].id) = videos_[k].id
                  /\ ret.value.videos[k].assets = AssetsOfVideo(ret.value.videos[k].id)

\* get_container returned two videos whose asset references differ, the
\* second video's having arrived first
C25_Witness ==
    /\ GetFetchesComplete
    /\ ret.kind = "Ok"
    /\ Len(ret.value.videos) = 2
    /\ fetched[4].position = 2
    /\ fetched[5].position = 1
    /\ ret.value.videos[1].assets # ret.value.videos[2].assets
    /\ ret.value.ads # <<>>

\* segment occurs in text at offset at
OccursAt(segment, text, at) ==
    /\ at + Len(segment) <= Len(text)
    /\ \A k \in 1..Len(segment) : text[at + k] = segment[k]

ContainsSegment(segment, text) == \E at \in 0..Len(text) : OccursAt(segment, text, at)

BeginsWith(segment, text) == OccursAt(segment, text, 0)

EndsWith(segment, text) ==
    Len(segment) <= Len(text) /\ OccursAt(segment, text, Len(text) - Len(segment))

\* C26: for every Container built by Container::from, the title contains
\* "_ads" if and only if the ads list is non-empty and "_images" if and only
\* if the images list is non-empty; it always begins with "container-<id>"
\* and always ends with "_videos", whatever the videos list contains.
C26_TitleSegments ==
    \A container \in Built :
        /\ ContainsSegment(<<"_", "a", "d", "s">>, container.title) <=> container.ads # <<>>
        /\ ContainsSegment(<<"_", "i", "m", "a", "g", "e", "s">>, container.title)
               <=> container.images # <<>>
        /\ BeginsWith(<<"c", "o", "n", "t", "a", "i", "n", "e", "r", "-">>
                      \o U32ToString(container.id), container.title)
        /\ EndsWith(<<"_", "v", "i", "d", "e", "o", "s">>, container.title)

\* A Container was built with advertisements, no image and no video
C26_Witness ==
    \E container \in Built :
        container.ads # <<>> /\ container.images = <<>> /\ container.videos = <<>>

\* The k-th response of the request in progress came from endpoint and is Ok
FetchedOk(k, endpoint) ==
    /\ Len(fetched) >= k
    /\ fetched[k].endpoint = endpoint
    /\ fetched[k].result.kind = "Ok"

\* C27: get_container(id) issues its upstream requests strictly in the order
\* advertisements, images, videos, asset references, each only after the
\* previous one has succeeded: if the advertisement fetch fails no image,
\* video or asset-reference request is ever issued, and if the image fetch
\* fails no video or asset-reference request is ever issued.
C27_GetContainerSequential ==
    (op.name = "get_container" /\ spc # "idle") =>
        /\ reqs.advertisements = 1
        /\ reqs.images \in {0, 1}
        /\ reqs.videos \in {0, 1}
        /\ reqs.images = 1 <=> FetchedOk(1, "advertisements")
        /\ reqs.videos = 1 <=> FetchedOk(1, "advertisements") /\ FetchedOk(2, "images")
        /\ reqs.asset_references > 0 =>
               /\ FetchedOk(1, "advertisements")
               /\ FetchedOk(2, "images")
               /\ FetchedOk(3, "videos")
        /\ \A k \in 1..Len(fetched) :
               /\ k = 1 => fetched[k].endpoint = "advertisements"
               /\ k = 2 => fetched[k].endpoint = "images"
               /\ k = 3 => fetched[k].endpoint = "videos"
               /\ k > 3 => fetched[k].endpoint = "asset_references"

\* get_container has ended on a failed image fetch, having issued the
\* advertisement and the image request only
C27_Witness ==
    /\ op.name = "get_container"
    /\ spc = "done"
    /\ Len(fetched) = 2
    /\ fetched[1].result.kind = "Ok"
    /\ fetched[2].result.kind # "Ok"
    /\ reqs = [advertisements |-> 1, images |-> 1, videos |-> 0, asset_references |-> 0]

\* C29: get_container(id) for an id whose upstream video response is a
\* successful empty list returns Ok with a Container whose videos list is
\* empty, whereas no Container returned by list_containers() has an empty
\* videos list.
C29_EmptyVideos ==
    /\ (GetFetchesComplete /\ FilterByContainer(upVideos, op.id) = <<>>) =>
           /\ spc = "done"
           /\ ret.kind = "Ok"
           /\ ret.value.id = op.id
           /\ ret.value.videos = <<>>
    /\ (op.name = "list_containers" /\ spc = "done" /\ ret.kind = "Ok") =>
           \A k \in 1..Len(ret.value) : ret.value[k].videos # <<>>

\* get_container returned a Container without videos for an id that has
\* advertisements, while another container has videos
C29_Witness ==
    /\ GetFetchesComplete
    /\ fetched[3].result = Ok(<<>>)
    /\ ret.kind = "Ok"
    /\ ret.value.videos = <<>>
    /\ ret.value.ads # <<>>
    /\ upVideos # <<>>

\* The upstream records of one container, in upstream order
RecordsOf(list, container_id) ==
    SelectSeq(list, LAMBDA dto : dto.container_id = U32ToString(container_id))

\* records are the Dtos of list, one for one
SameRecords(records, list) ==
    /\ Len(records) = Len(list)
    /\ \A k \in 1..Len(list) : SameRecord(records[k], list[k])

\* videos are the Dtos of list, one for one, each with its own assets
SameVideos(videos_, list) ==
    /\ Len(videos_) = Len(list)
    /\ \A k \in 1..Len(list) :
          /\ videos_[k].id \in Nat
          /\ U32ToString(videos_[k].id) = list[k].id
          /\ videos_[k].title = list[k].title
          /\ videos_[k].assets = AssetsOfVideo(videos_[k].id)

\* C30: in every result of list_containers() the container ids are pairwise
\* distinct, each Container's id is a container id carried by at least one
\* upstream video, its videos are exactly the videos of that container id,
\* and its ads and images are exactly the upstream advertisements and images
\* of that same container id.
C30_ListContainersAssembly ==
    (op.name = "list_containers" /\ spc = "done" /\ ret.kind = "Ok") =>
        /\ \A a, b \in 1..Len(ret.value) : a # b => ret.value[a].id # ret.value[b].id
        /\ \A k \in 1..Len(ret.value) :
              LET container == ret.value[k]
              IN  /\ RecordsOf(upVideos, container.id) # <<>>
                  /\ SameVideos(container.videos, RecordsOf(upVideos, container.id))
                  /\ SameRecords(container.ads, RecordsOf(upAds, container.id))
                  /\ SameRecords(container.images, RecordsOf(upImages, container.id))

\* list_containers returned two Containers, one with an advertisement and
\* one without, while the upstream holds an advertisement
C30_Witness ==
    /\ op.name = "list_containers"
    /\ spc = "done"
    /\ ret.kind = "Ok"
    /\ Len(ret.value) = 2
    /\ \E a, b \in 1..2 : ret.value[a].ads # <<>> /\ ret.value[b].ads = <<>>

====
